---- MODULE Spec2Model ----
(***************************************************************************)
(* Model of clean_registry.py: the registry storage tree (repositories,   *)
(* tags, current links, index entries, manifest revisions), the cleaning  *)
(* functions clean_revisions / clean_tag / clean_repo, the name validator *)
(* check_name, and one run of main() + RegistryCleaner.__call__().        *)
(*                                                                         *)
(* Names (images, repositories, tags) are sequences of one-character      *)
(* strings, so that splitting on ':' and '/', the regular expressions and  *)
(* the slicing of the link file are computed as the code computes them.    *)
(***************************************************************************)
EXTENDS Integers, Sequences, FiniteSets, TLC

(* ------------------------------------------------------------------ *)
(* Bounds and program constants                                        *)
(* ------------------------------------------------------------------ *)

\* longest list of REPOSITORY[:TAG] arguments of a run
MaxImages == 2

\* longest image name whose validation is examined
MaxNameLen == 4

\* len(tag) < 129 and len(image) < 256 in check_name
TagLimit == 129
ImageLimit == 256

(* ------------------------------------------------------------------ *)
(* Characters and names                                                *)
(* ------------------------------------------------------------------ *)

LowerAlnum == {"a", "b", "e", "l", "q", "r", "s", "t", "0"}
UpperAlpha == {"R"}
NL == "\n"

\* "sha256:" as written at the start of every current/link file
Sha256Prefix == <<"s", "h", "a", "2", "5", "6", ":">>

Latest == <<"l", "a", "t", "e", "s", "t">>

Hashes == {"h0", "h1", "h2"}

RepoR == <<"r">>
RepoSub == <<"r", "/", "s">>
RepoPaths == {RepoR, RepoSub}

TagA == <<"a">>
TagB == <<"b">>
Tags == {TagA, TagB}

NoFile == <<>>

\* content of a current/link file pointing to revision h
LinkTo(h) == Sha256Prefix \o <<h>>

(* ------------------------------------------------------------------ *)
(* String helpers                                                      *)
(* ------------------------------------------------------------------ *)

\* positions of character c in s
Positions(s, c) == {i \in 1..Len(s) : s[i] = c}

Min(S) == CHOOSE x \in S : \A y \in S : x <= y

\* image.split(":", 1) if ":" in image else (image, dflt)
SplitImage(image, dflt) ==
    IF Positions(image, ":") = {}
    THEN [repo |-> image, tag |-> dflt]
    ELSE LET k == Min(Positions(image, ":"))
         IN [repo |-> SubSeq(image, 1, k - 1),
             tag |-> SubSeq(image, k + 1, Len(image))]

\* repo.split("/"): the sequence of '/'-separated segments
RECURSIVE SplitSlash(_)
SplitSlash(s) ==
    IF Positions(s, "/") = {}
    THEN <<s>>
    ELSE LET k == Min(Positions(s, "/"))
         IN <<SubSeq(s, 1, k - 1)>> \o SplitSlash(SubSeq(s, k + 1, Len(s)))

\* what the pattern's final '$' accepts: the end of the string, or the
\* position just before a newline that is the string's last character
DollarAt(s, k) ==
    \/ k = Len(s)
    \/ k = Len(s) - 1 /\ s[Len(s)] = NL

(* ------------------------------------------------------------------ *)
(* check_name                                                          *)
(* ------------------------------------------------------------------ *)

TagFirst == LowerAlnum \cup UpperAlpha \cup {"_"}
TagRest == TagFirst \cup {".", "-"}

\* re.match(r'[a-zA-Z0-9_][a-zA-Z0-9_.-]*$', tag)
TagMatch(tag) ==
    /\ Len(tag) >= 1
    /\ tag[1] \in TagFirst
    /\ \E k \in 1..Len(tag) :
          /\ \A i \in 2..k : tag[i] \in TagRest
          /\ DollarAt(tag, k)

\* Matching [a-z0-9]+(?:(?:[._]|__|[-]*)[a-z0-9]+)* from position i of s,
\* st saying what was read last: "start" nothing, "alnum" a character of
\* [a-z0-9], "sep" a complete separator '.' or '__', "us" one '_',
\* "dash" a run of '-'.  The pattern may stop after an "alnum" where '$'
\* accepts.
RECURSIVE SegFrom(_, _, _)
SegFrom(s, i, st) ==
    \/ st = "alnum" /\ DollarAt(s, i - 1)
    \/ /\ i <= Len(s)
       /\ \/ s[i] \in LowerAlnum /\ SegFrom(s, i + 1, "alnum")
          \/ s[i] = "." /\ st = "alnum" /\ SegFrom(s, i + 1, "sep")
          \/ s[i] = "_" /\ st = "alnum" /\ SegFrom(s, i + 1, "us")
          \/ s[i] = "_" /\ st = "us" /\ SegFrom(s, i + 1, "sep")
          \/ s[i] = "-" /\ st \in {"alnum", "dash"} /\ SegFrom(s, i + 1, "dash")

\* re.match(r'[a-z0-9]+(?:(?:[._]|__|[-]*)[a-z0-9]+)*$', path)
SegMatch(path) == SegFrom(path, 1, "start")

check_name(image) ==
    LET parts == SplitImage(image, Latest)
        tag_valid == Len(parts.tag) < TagLimit /\ TagMatch(parts.tag)
        segs == SplitSlash(parts.repo)
        repo_valid == \A j \in 1..Len(segs) : SegMatch(segs[j])
    IN Len(image) < ImageLimit /\ tag_valid /\ repo_valid

(* ------------------------------------------------------------------ *)
(* The storage tree                                                    *)
(* ------------------------------------------------------------------ *)

\* One entry per repository path below docker/registry/v2/repositories:
\*   dir    the directory <path> exists
\*   mf     <path>/_manifests/{tags,revisions/sha256} exist
\*   tags   the names listed in <path>/_manifests/tags/
\*   link   content of tags/<tag>/current/link, NoFile when there is none
\*   index  the names listed in tags/<tag>/index/sha256/
\*   revs   the names listed in _manifests/revisions/sha256/
NoRepo ==
    [dir |-> FALSE, mf |-> FALSE, tags |-> {},
     link |-> [t \in Tags |-> NoFile],
     index |-> [t \in Tags |-> {}],
     revs |-> {}]

\* a directory that only holds nested repositories
NamespaceDir == [NoRepo EXCEPT !.dir = TRUE]

\* a directory name as the string os.listdir / basename gives
Name(h) == <<h>>

\* q is p or lies below p
IsUnder(q, p) ==
    \/ q = p
    \/ /\ Len(q) > Len(p)
       /\ SubSeq(q, 1, Len(p)) = p
       /\ q[Len(p) + 1] = "/"

\* os.path.isdir(repo)
IsDir(fs, repo) == repo \in DOMAIN fs /\ fs[repo].dir

\* os.path.isfile(f"{repo}/_manifests/tags/{tag}/current/link")
IsLinkFile(fs, repo, tag) ==
    /\ IsDir(fs, repo)
    /\ tag \in fs[repo].tags
    /\ fs[repo].link[tag] # NoFile

\* Mutant of ReadCurrent: the "sha256:" prefix is not cut off
ReadCurrent_whole(content) == content

\* infile.read()[len("sha256:"):]
ReadCurrent(content) == SubSeq(content, Len(Sha256Prefix) + 1, Len(content))

\* the paths remove() is called with
RepoPath(repo) == [kind |-> "repo", repo |-> repo]
TagPath(repo, tag) == [kind |-> "tag", repo |-> repo, tag |-> tag]
IndexPath(repo, tag, h) == [kind |-> "index", repo |-> repo, tag |-> tag, hash |-> h]
RevisionPath(repo, h) == [kind |-> "revision", repo |-> repo, hash |-> h]

\* Mutant of remove: removing a tag takes the whole tags directory's content
remove_all_tags(fs, path) ==
    CASE path.kind = "repo" ->
           [q \in DOMAIN fs |-> IF IsUnder(q, path.repo) THEN NoRepo ELSE fs[q]]
      [] path.kind = "tag" ->
           [fs EXCEPT ![path.repo].tags = {},
                      ![path.repo].link = [t \in Tags |-> NoFile],
                      ![path.repo].index = [t \in Tags |-> {}]]
      [] path.kind = "index" ->
           [fs EXCEPT ![path.repo].index[path.tag] = @ \ {path.hash}]
      [] path.kind = "revision" ->
           [fs EXCEPT ![path.repo].revs = @ \ {path.hash}]

\* rmtree(path): the subtree at path is gone, with everything below it
remove(fs, path) ==
    CASE path.kind = "repo" ->
           [q \in DOMAIN fs |-> IF IsUnder(q, path.repo) THEN NoRepo ELSE fs[q]]
      [] path.kind = "tag" ->
           [fs EXCEPT ![path.repo].tags = @ \ {path.tag},
                      ![path.repo].link[path.tag] = NoFile,
                      ![path.repo].index[path.tag] = {}]
      [] path.kind = "index" ->
           [fs EXCEPT ![path.repo].index[path.tag] = @ \ {path.hash}]
      [] path.kind = "revision" ->
           [fs EXCEPT ![path.repo].revs = @ \ {path.hash}]

\* remove() applied to every path of a set (the paths are disjoint subtrees)
RECURSIVE removeAll(_, _)
removeAll(fs, paths) ==
    IF paths = {}
    THEN fs
    ELSE LET p == CHOOSE x \in paths : TRUE
         IN removeAll(remove(fs, p), paths \ {p})

(* ------------------------------------------------------------------ *)
(* clean_revisions, clean_tag, clean_repo                              *)
(* ------------------------------------------------------------------ *)

\* Mutant of manifests: the hashes the tags' current links hold, instead of
\* the names found in every tag's index
manifests_currents(fs, repo) ==
    {ReadCurrent(fs[repo].link[t]) :
        t \in {u \in fs[repo].tags : fs[repo].link[u] # NoFile}}

\* set(map(os.path.basename, iglob(f"{repo}/_manifests/tags/*/*/sha256/*")))
manifests(fs, repo) ==
    UNION {{Name(h) : h \in fs[repo].index[t]} : t \in fs[repo].tags}

\* Result of a cleaning function: the tree it leaves, its return value,
\* the errors it printed, and whether it raised (os.listdir of a missing
\* directory raises FileNotFoundError, which nothing catches).
Result(fs, ok, errors, raised) ==
    [fs |-> fs, ok |-> ok, errors |-> errors, raised |-> raised]

\* Mutant of clean_revisions: every revision is removed, referenced or not
clean_revisions_all(fs, repo) ==
    IF ~fs[repo].mf
    THEN Result(fs, FALSE, <<>>, TRUE)
    ELSE Result(removeAll(fs, {RevisionPath(repo, h) : h \in fs[repo].revs}),
                TRUE, <<>>, FALSE)

clean_revisions(fs, repo) ==
    IF ~fs[repo].mf
    THEN Result(fs, FALSE, <<>>, TRUE)
    ELSE LET revisions == {h \in fs[repo].revs : Name(h) \notin manifests(fs, repo)}
         IN Result(removeAll(fs, {RevisionPath(repo, h) : h \in revisions}),
                   TRUE, <<>>, FALSE)

NoSuchTag(repo, tag) == [msg |-> "No such tag", repo |-> repo, tag |-> tag]
NoSuchRepository(repo) == [msg |-> "No such repository", repo |-> repo, tag |-> <<>>]
InvalidName(image) == [msg |-> "Invalid Docker repository/tag", repo |-> image, tag |-> <<>>]

\* Mutant of clean_tag: the revisions are cleaned before the index is pruned
clean_tag_revisions_first(fs, repo, tag, rm) ==
    IF ~IsLinkFile(fs, repo, tag)
    THEN Result(fs, FALSE, <<NoSuchTag(repo, tag)>>, FALSE)
    ELSE LET cleaned == clean_revisions(fs, repo).fs
             current == ReadCurrent(cleaned[repo].link[tag])
             stale == {h \in cleaned[repo].index[tag] : Name(h) # current}
         IN Result(IF rm
                   THEN remove(cleaned, TagPath(repo, tag))
                   ELSE removeAll(cleaned, {IndexPath(repo, tag, h) : h \in stale}),
                   TRUE, <<>>, FALSE)

clean_tag(fs, repo, tag, rm) ==
    IF ~IsLinkFile(fs, repo, tag)
    THEN Result(fs, FALSE, <<NoSuchTag(repo, tag)>>, FALSE)
    ELSE LET current == ReadCurrent(fs[repo].link[tag])
             stale == {h \in fs[repo].index[tag] : Name(h) # current}
             pruned == IF rm
                       THEN remove(fs, TagPath(repo, tag))
                       ELSE removeAll(fs, {IndexPath(repo, tag, h) : h \in stale})
         IN clean_revisions(pruned, repo)

\* Mutant of currents: the live hash of one tag only
currents_one_tag(fs, repo) ==
    LET linked == {u \in fs[repo].tags : fs[repo].link[u] # NoFile}
    IN IF linked = {}
       THEN {}
       ELSE {ReadCurrent(fs[repo].link[CHOOSE u \in linked : TRUE])}

\* currents: the hashes the current/link files of the repository's tags hold
currents(fs, repo) ==
    {ReadCurrent(fs[repo].link[t]) :
        t \in {u \in fs[repo].tags : fs[repo].link[u] # NoFile}}

\* Mutant of whole_repo: the repository goes only when no tag is given
whole_repo_without_tag(tags, tag) == tag = <<>>

\* Mutant of whole_repo: one tag in total suffices, whichever it is
whole_repo_any_single_tag(tags, tag) ==
    tag = <<>> \/ Cardinality(tags) = 1

\* not tag or len(tags) == 1 and tag in tags
whole_repo(tags, tag) ==
    tag = <<>> \/ (Cardinality(tags) = 1 /\ tag \in tags)

clean_repo(fs, image, rm) ==
    LET parts == SplitImage(image, <<>>)
        repo == parts.repo
        tag == parts.tag
    IN IF ~IsDir(fs, repo)
       THEN Result(fs, FALSE, <<NoSuchRepository(repo)>>, FALSE)
       ELSE IF rm /\ ~fs[repo].mf
       THEN Result(fs, FALSE, <<>>, TRUE)
       ELSE IF rm /\ whole_repo(fs[repo].tags, tag)
       THEN Result(remove(fs, RepoPath(repo)), TRUE, <<>>, FALSE)
       ELSE IF tag # <<>>
       THEN clean_tag(fs, repo, tag, rm)
       ELSE LET entries == {IndexPath(repo, t, h) : t \in fs[repo].tags, h \in Hashes}
                pruned == removeAll(fs,
                            {x \in entries : /\ x.hash \in fs[repo].index[x.tag]
                                             /\ Name(x.hash) \notin currents(fs, repo)})
            IN clean_revisions(pruned, repo)

(* ------------------------------------------------------------------ *)
(* One run: main() and RegistryCleaner.__call__()                      *)
(* ------------------------------------------------------------------ *)

VARIABLES
    fs,           \* the storage tree
    args,         \* parsed command line: images, remove, container
    pc,           \* "main", "call", "loop", "start", "exit"
    images,       \* the targets __call__ iterates over
    done,         \* number of targets clean_repo has been called for
    exit_status,  \* __call__'s exit_status
    code,         \* the process's exit status, set when pc = "exit"
    container,    \* "none" (a volume was given), "running", "stopped"
    errors,       \* the error messages printed so far
    calls,        \* the calls made so far, in order
    pre,          \* the storage tree before the last clean_repo call
    fs0           \* the storage tree when the run started

vars == <<fs, args, pc, images, done, exit_status, code, container,
          errors, calls, pre, fs0>>

\* the REPOSITORY[:TAG] arguments the runs are given
ImageArgs ==
    {<<"r">>, <<"r", ":", "a">>, <<"r", ":", "b">>,
     <<"r", "/", "s">>, <<"R">>}

RECURSIVE SeqsUpTo(_, _)
SeqsUpTo(S, n) ==
    IF n = 0
    THEN {<<>>}
    ELSE LET shorter == SeqsUpTo(S, n - 1)
         IN shorter \cup {Append(q, x) : q \in shorter, x \in S}

\* a repository directory as the registry writes it: every index entry has
\* its revision, and a tag's current link points into the tag's own index;
\* a tag directory may have lost its current/link
WellFormedRepo(r) ==
    /\ r.dir /\ r.mf
    /\ \A t \in Tags \ r.tags : r.link[t] = NoFile /\ r.index[t] = {}
    /\ \A t \in r.tags :
          \/ r.link[t] = NoFile
          \/ \E h \in r.index[t] : r.link[t] = LinkTo(h)
    /\ \A t \in r.tags : r.index[t] \subseteq r.revs

\* the revisions present are named in order: h1 only with h0, h2 only
\* with h1 (hashes are opaque names, so nothing is lost)
RevisionSets == {{}, {"h0"}, {"h0", "h1"}, {"h0", "h1", "h2"}}

RepoStates ==
    {r \in [dir : {TRUE}, mf : {TRUE}, tags : SUBSET Tags,
            link : [Tags -> {NoFile} \cup {LinkTo(h) : h \in Hashes}],
            index : [Tags -> SUBSET Hashes],
            revs : RevisionSets] : WellFormedRepo(r)}

\* the nested repository r/s
SubRepo ==
    [dir |-> TRUE, mf |-> TRUE, tags |-> {TagA},
     link |-> [t \in Tags |-> IF t = TagA THEN LinkTo("h0") ELSE NoFile],
     index |-> [t \in Tags |-> IF t = TagA THEN {"h0", "h1"} ELSE {}],
     revs |-> {"h0", "h1"}]

\* the trees a run may start from: nothing at all, or the repository r/s
\* below r, which is a plain directory or a repository itself
Trees ==
    {[p \in RepoPaths |-> NoRepo]}
        \cup {[p \in RepoPaths |-> IF p = RepoR THEN r ELSE SubRepo] :
                 r \in RepoStates \cup {NamespaceDir}}

Init ==
    /\ fs \in Trees
    /\ args \in [images : SeqsUpTo(ImageArgs, MaxImages),
                 remove : BOOLEAN,
                 container : BOOLEAN]
    /\ pc = "main"
    /\ images = <<>>
    /\ done = 0
    /\ exit_status = 0
    /\ code = 0
    /\ container = IF args.container THEN "running" ELSE "none"
    /\ errors = <<>>
    /\ calls = <<>>
    /\ pre = fs
    /\ fs0 = fs

\* map(os.path.dirname, iglob("**/_manifests", recursive=True)): the
\* directories holding a _manifests entry, a directory before those below it
Discovered(tree) ==
    (IF tree[RepoR].mf THEN <<RepoR>> ELSE <<>>)
        \o (IF tree[RepoSub].mf THEN <<RepoSub>> ELSE <<>>)

\* Mutant of invalid_images: only the first image is validated
invalid_images_first_only(imgs) ==
    {j \in 1..Len(imgs) : j = 1 /\ ~check_name(imgs[j])}

\* the positions of the images check_name rejects
invalid_images(imgs) == {j \in 1..Len(imgs) : ~check_name(imgs[j])}

UsageError ==
    [msg |-> "The -x option requires that you specify at least one repository",
     repo |-> <<>>, tag |-> <<>>]

\* main(): validate every image, refuse -x without images, build the
\* cleaner; sys.exit(<message>) prints the message and exits with status 1
Main ==
    /\ pc = "main"
    /\ IF invalid_images(args.images) # {}
       THEN /\ errors' = Append(errors,
                           InvalidName(args.images[Min(invalid_images(args.images))]))
            /\ pc' = "exit"
            /\ code' = 1
       ELSE IF args.remove /\ args.images = <<>>
       THEN /\ errors' = Append(errors, UsageError)
            /\ pc' = "exit"
            /\ code' = 1
       ELSE /\ pc' = "call"
            /\ UNCHANGED <<errors, code>>
    /\ UNCHANGED <<fs, args, images, done, exit_status, container, calls, pre, fs0>>

\* __call__ up to the loop: stop the container, fix the targets
Call ==
    /\ pc = "call"
    /\ IF container = "none"
       THEN UNCHANGED <<container, calls>>
       ELSE /\ container' = "stopped"
            /\ calls' = Append(calls, [op |-> "stop_container"])
    /\ images' = IF args.images # <<>> THEN args.images ELSE Discovered(fs)
    /\ exit_status' = 0
    /\ pc' = "loop"
    /\ UNCHANGED <<fs, args, done, code, errors, pre, fs0>>

\* one iteration of the loop: clean_repo(image); an exception it raises
\* ends the process with a traceback and status 1
CleanRepo ==
    /\ pc = "loop"
    /\ done < Len(images)
    /\ LET image == images[done + 1]
           res == clean_repo(fs, image, args.remove)
       IN /\ pre' = fs
          /\ fs' = res.fs
          /\ errors' = errors \o res.errors
          /\ done' = done + 1
          /\ calls' = Append(calls, [op |-> "clean_repo", image |-> image,
                                     ok |-> res.ok, raised |-> res.raised])
          /\ IF res.raised
             THEN /\ pc' = "exit"
                  /\ code' = 1
                  /\ UNCHANGED exit_status
             ELSE /\ exit_status' = IF res.ok THEN exit_status ELSE 1
                  /\ UNCHANGED <<pc, code>>
    /\ UNCHANGED <<args, images, container, fs0>>

\* Mutant of GarbageCollect: the collector's result replaces exit_status
GarbageCollect_overwrites_status ==
    /\ pc = "loop"
    /\ done = Len(images)
    /\ \E status \in BOOLEAN :
          /\ calls' = Append(calls, [op |-> "garbage_collect", ok |-> status])
          /\ exit_status' = IF status THEN 0 ELSE 1
    /\ pc' = "start"
    /\ UNCHANGED <<fs, args, images, done, code, container, errors, pre, fs0>>

\* if not self.garbage_collect(): exit_status = 1; whether the collector
\* succeeds is the environment's choice
GarbageCollect ==
    /\ pc = "loop"
    /\ done = Len(images)
    /\ \E status \in BOOLEAN :
          /\ calls' = Append(calls, [op |-> "garbage_collect", ok |-> status])
          /\ exit_status' = IF status THEN exit_status ELSE 1
    /\ pc' = "start"
    /\ UNCHANGED <<fs, args, images, done, code, container, errors, pre, fs0>>

\* start the container again, close the client, sys.exit(cleaner())
Finish ==
    /\ pc = "start"
    /\ IF container = "none"
       THEN UNCHANGED <<container, calls>>
       ELSE /\ container' = "running"
            /\ calls' = Append(calls, [op |-> "start_container"])
    /\ code' = exit_status
    /\ pc' = "exit"
    /\ UNCHANGED <<fs, args, images, done, exit_status, errors, pre, fs0>>

Next == Main \/ Call \/ CleanRepo \/ GarbageCollect \/ Finish

Spec == Init /\ [][Next]_vars

(* ------------------------------------------------------------------ *)
(* Runs in which rmtree fails or the user interrupts                   *)
(* ------------------------------------------------------------------ *)

\* the paths a clean_repo call on repo hands to remove(), read off the tree
\* f before the call and the tree g it leaves
removals(f, g, repo) ==
    IF ~g[repo].dir
    THEN {RepoPath(repo)}
    ELSE {TagPath(repo, t) : t \in f[repo].tags \ g[repo].tags}
           \cup {IndexPath(repo, x[1], x[2]) :
                    x \in {y \in g[repo].tags \X Hashes :
                              y[2] \in f[repo].index[y[1]] \ g[repo].index[y[1]]}}
           \cup {RevisionPath(repo, h) : h \in f[repo].revs \ g[repo].revs}

\* remove() is called on the repository, tag and index paths before
\* clean_revisions is reached
BeforeRevisions(path) == path.kind # "revision"

\* one iteration of the loop in which rmtree(path) raises OSError for one
\* of the paths: the removals made before it stay, the path itself and the
\* ones after it are left, and the exception, which nothing catches, ends
\* the process with a traceback and status 1
CleanRepoFails ==
    /\ pc = "loop"
    /\ done < Len(images)
    /\ LET image == images[done + 1]
           repo == SplitImage(image, <<>>).repo
           res == clean_repo(fs, image, args.remove)
       IN /\ ~res.raised
          /\ res.fs # fs
          /\ \E path \in removals(fs, res.fs, repo) :
                \E earlier \in SUBSET (removals(fs, res.fs, repo) \ {path}) :
                   /\ \A x \in earlier :
                         BeforeRevisions(path) => BeforeRevisions(x)
                   /\ \A x \in removals(fs, res.fs, repo) \ {path} :
                         (BeforeRevisions(x) /\ ~BeforeRevisions(path))
                             => x \in earlier
                   /\ fs' = removeAll(fs, earlier)
                   /\ calls' = Append(calls, [op |-> "clean_repo", image |-> image,
                                              ok |-> FALSE, raised |-> TRUE,
                                              failed |-> path])
          /\ pre' = fs
          /\ done' = done + 1
          /\ pc' = "exit"
          /\ code' = 1
    /\ UNCHANGED <<args, images, exit_status, container, errors, fs0>>

\* KeyboardInterrupt while the cleaner runs: caught around main() only,
\* where the handler is sys.exit(1)
Interrupt ==
    /\ pc \in {"call", "loop", "start"}
    /\ pc' = "exit"
    /\ code' = 1
    /\ UNCHANGED <<fs, args, images, done, exit_status, container, errors,
                   calls, pre, fs0>>

NextFault ==
    Main \/ Call \/ CleanRepo \/ CleanRepoFails \/ GarbageCollect \/ Finish
        \/ Interrupt

SpecFault == Init /\ [][NextFault]_vars

(* ------------------------------------------------------------------ *)
(* Dry-run mode (the pruner prune(path, dryRun) of the specification)  *)
(* ------------------------------------------------------------------ *)

\* Mutant of remove_dir: the dry-run flag is ignored
remove_dir_always(tree, path, dry_run) == remove(tree, path)

\* prune(path, dryRun): removes path and everything under it unless dryRun
\* is set, in which case it only reports that the path would be removed
remove_dir(tree, path, dry_run) == IF dry_run THEN tree ELSE remove(tree, path)

\* remove_dir applied to every path of a set
RECURSIVE remove_dirs(_, _, _)
remove_dirs(tree, paths, dry_run) ==
    IF paths = {}
    THEN tree
    ELSE LET p == CHOOSE x \in paths : TRUE
         IN remove_dirs(remove_dir(tree, p, dry_run), paths \ {p}, dry_run)

\* the revisions clean_revisions finds unreferenced in the tree as it is
unused_revisions(tree, repo) ==
    {RevisionPath(repo, h) :
        h \in {g \in tree[repo].revs : Name(g) \notin manifests(tree, repo)}}

\* the paths one target hands to the pruner when every deletion is
\* short-circuited: each step of the cleaning reads the unchanged tree
would_remove(tree, image, rm) ==
    LET parts == SplitImage(image, <<>>)
        repo == parts.repo
        tag == parts.tag
    IN IF ~IsDir(tree, repo) \/ ~tree[repo].mf
       THEN {}
       ELSE IF rm /\ whole_repo(tree[repo].tags, tag)
       THEN {RepoPath(repo)}
       ELSE IF tag # <<>>
       THEN IF ~IsLinkFile(tree, repo, tag)
            THEN {}
            ELSE (IF rm
                  THEN {TagPath(repo, tag)}
                  ELSE {IndexPath(repo, tag, h) :
                           h \in {g \in tree[repo].index[tag] :
                                     Name(g) # ReadCurrent(tree[repo].link[tag])}})
                     \cup unused_revisions(tree, repo)
       ELSE {IndexPath(repo, x[1], x[2]) :
                x \in {y \in tree[repo].tags \X Hashes :
                          /\ y[2] \in tree[repo].index[y[1]]
                          /\ Name(y[2]) \notin currents(tree, repo)}}
               \cup unused_revisions(tree, repo)

\* the dry-run flag of the run
DryRun == TRUE

\* one iteration of the loop in dry-run mode: the target is examined as in
\* clean_repo, its errors are printed, and each removal goes to the pruner,
\* which reports it
DryCleanRepo ==
    /\ pc = "loop"
    /\ done < Len(images)
    /\ LET image == images[done + 1]
           res == clean_repo(fs, image, args.remove)
           paths == would_remove(fs, image, args.remove)
       IN /\ pre' = fs
          /\ fs' = remove_dirs(fs, paths, DryRun)
          /\ errors' = errors \o res.errors
          /\ done' = done + 1
          /\ calls' = Append(calls, [op |-> "clean_repo", image |-> image,
                                     ok |-> res.ok, raised |-> res.raised,
                                     reported |-> paths])
          /\ IF res.raised
             THEN /\ pc' = "exit"
                  /\ code' = 1
                  /\ UNCHANGED exit_status
             ELSE /\ exit_status' = IF res.ok THEN exit_status ELSE 1
                  /\ UNCHANGED <<pc, code>>
    /\ UNCHANGED <<args, images, container, fs0>>

\* in dry-run mode garbage collection is skipped and reported as skipped
DryGarbageCollect ==
    /\ pc = "loop"
    /\ done = Len(images)
    /\ calls' = Append(calls, [op |-> "garbage_collect_skipped"])
    /\ pc' = "start"
    /\ UNCHANGED <<fs, args, images, done, exit_status, code, container,
                   errors, pre, fs0>>

NextDryRun == Main \/ Call \/ DryCleanRepo \/ DryGarbageCollect \/ Finish

SpecDryRun == Init /\ [][NextDryRun]_vars

(* ------------------------------------------------------------------ *)
(* The last clean_repo call of a run                                   *)
(* ------------------------------------------------------------------ *)

Called == done > 0
CleanCalls == SelectSeq(calls, LAMBDA c : c.op = "clean_repo")
LastCall == CleanCalls[done]
LastRepo == SplitImage(images[done], <<>>).repo
LastTag == SplitImage(images[done], <<>>).tag

\* the target named a repository: a directory with a _manifests tree
WasRepository == LastRepo \in DOMAIN pre /\ pre[LastRepo].dir /\ pre[LastRepo].mf

Before == pre[LastRepo]
After == fs[LastRepo]

\* the hash h's revision is referenced by the index of some tag in T
Referenced(r, T, h) == \E t \in T : h \in r.index[t]

\* every repository other than the target's is as it was
OthersUnchanged == \A q \in DOMAIN fs : q # LastRepo => fs[q] = pre[q]

(* ------------------------------------------------------------------ *)
(* Properties                                                          *)
(* ------------------------------------------------------------------ *)

\* C1: whenever clean_revisions has run on a repository (the call returned
\* True and the repository directory is still there), a revision that was
\* present is gone if and only if no tag of the repository, the cleaned one
\* or any other, has it in its index; no revision appears.
C1_RevisionDeletedIffUnreferenced ==
    (Called /\ LastCall.ok /\ IsDir(fs, LastRepo)) =>
        /\ After.revs \subseteq Before.revs
        /\ \A h \in Before.revs :
              h \notin After.revs <=> ~Referenced(After, After.tags, h)

\* clean_tag ran on r:a, deleted a revision, and kept a revision that only
\* the other tag's index references
C1_Witness ==
    /\ Called /\ LastCall.ok /\ IsDir(fs, LastRepo)
    /\ LastRepo = RepoR /\ LastTag = TagA
    /\ Before.revs \ After.revs # {}
    /\ \E k \in After.revs : k \notin After.index[TagA] /\ k \in After.index[TagB]

\* C2: in non-remove mode, clean_tag on a tag whose current/link holds
\* sha256:<h> leaves exactly index/sha256/<h> of that tag's index, changes
\* no tag's link and no other tag's index, and deletes a revision only if
\* no other tag's index references it.
C2_CleanTagKeepsCurrentOnly ==
    (Called /\ ~args.remove /\ LastTag # <<>> /\ IsLinkFile(pre, LastRepo, LastTag)) =>
        /\ LastCall.ok
        /\ After.tags = Before.tags
        /\ After.link = Before.link
        /\ \A x \in Hashes :
              x \in After.index[LastTag] <=>
                  (x \in Before.index[LastTag] /\ Before.link[LastTag] = LinkTo(x))
        /\ \A t \in Before.tags \ {LastTag} : After.index[t] = Before.index[t]
        /\ \A x \in Before.revs \ After.revs :
              ~Referenced(Before, Before.tags \ {LastTag}, x)

\* pruning tag a deleted a stale entry of a whose revision stays because
\* tag b's index references it, and kept a's live entry
C2_Witness ==
    /\ Called /\ ~args.remove /\ LastRepo = RepoR /\ LastTag = TagA
    /\ IsLinkFile(pre, LastRepo, LastTag)
    /\ \E x \in Before.index[TagA] \ After.index[TagA] :
          x \in After.revs /\ x \in After.index[TagB]
    /\ After.index[TagA] # {}

\* C3 as stated: in non-remove mode without a tag, every tag with a current
\* link is left with exactly the index entry equal to its own current hash.
C3_Original ==
    (Called /\ ~args.remove /\ LastTag = <<>> /\ WasRepository) =>
        \A t \in {u \in Before.tags : Before.link[u] # NoFile} :
           \A x \in Hashes :
              x \in After.index[t] <=>
                  (x \in Before.index[t] /\ Before.link[t] = LinkTo(x))

\* C3 as the code has it: in non-remove mode without a tag, an index entry
\* of a tag is deleted if and only if its hash is the current hash of no
\* tag of the repository; in particular every tag keeps the entry of its
\* own current hash, and tags and links are left alone.
C3_AllTagsKeepAnyCurrent ==
    (Called /\ ~args.remove /\ LastTag = <<>> /\ WasRepository) =>
        /\ LastCall.ok
        /\ After.tags = Before.tags
        /\ After.link = Before.link
        /\ \A t \in Before.tags : \A x \in Hashes :
              x \in After.index[t] <=>
                  /\ x \in Before.index[t]
                  /\ \E u \in Before.tags : Before.link[u] = LinkTo(x)
        /\ \A t \in Before.tags : \A x \in Before.index[t] :
              Before.link[t] = LinkTo(x) => x \in After.index[t]

\* cleaning all tags of r deleted a stale entry of tag a and kept another
\* entry of a that is not a's current hash but tag b's
C3_Witness ==
    /\ Called /\ ~args.remove /\ LastTag = <<>> /\ LastRepo = RepoR /\ WasRepository
    /\ Before.index[TagA] \ After.index[TagA] # {}
    /\ \E x \in After.index[TagA] :
          Before.link[TagA] # LinkTo(x) /\ Before.link[TagB] = LinkTo(x)

\* C4: in remove mode on a repository, the whole repository directory is
\* removed when no tag is given or when the requested tag is the
\* repository's only tag; when the only tag is another one, nothing is
\* removed and the target fails with "No such tag".
C4_RemoveWholeRepository ==
    (Called /\ args.remove /\ WasRepository) =>
        /\ (LastTag = <<>> \/ Before.tags = {LastTag}) =>
              LastCall.ok /\ ~IsDir(fs, LastRepo)
        /\ (LastTag # <<>> /\ Cardinality(Before.tags) = 1 /\ LastTag \notin Before.tags) =>
              /\ ~LastCall.ok
              /\ fs = pre
              /\ errors # <<>>
              /\ errors[Len(errors)] = NoSuchTag(LastRepo, LastTag)

\* remove mode, the repository's only tag is b and a was requested
C4_Witness ==
    /\ Called /\ args.remove /\ WasRepository
    /\ LastRepo = RepoR /\ LastTag = TagA /\ Before.tags = {TagB}
    /\ Before.link[TagB] # NoFile
    /\ IsDir(fs, RepoR)

\* C5: in remove mode with a tag given on a repository with two or more
\* tags, the repository directory stays, every other tag keeps its link and
\* its index, every other repository is unchanged; the requested tag's
\* subtree is removed when it has a current link (else nothing is), and the
\* revisions left are those some remaining tag's index references.
C5_RemoveOnlyThatTag ==
    (Called /\ args.remove /\ LastTag # <<>> /\ WasRepository
        /\ Cardinality(Before.tags) >= 2) =>
        /\ After.dir /\ After.mf
        /\ OthersUnchanged
        /\ \A t \in Before.tags \ {LastTag} :
              /\ t \in After.tags
              /\ After.link[t] = Before.link[t]
              /\ After.index[t] = Before.index[t]
        /\ IF IsLinkFile(pre, LastRepo, LastTag)
           THEN /\ LastCall.ok
                /\ After.tags = Before.tags \ {LastTag}
                /\ After.revs =
                      {h \in Before.revs : Referenced(Before, Before.tags \ {LastTag}, h)}
           ELSE ~LastCall.ok /\ fs = pre

\* tag a of r was removed, tag b is still there with its index, and a
\* revision only a referenced went with it
C5_Witness ==
    /\ Called /\ args.remove /\ WasRepository
    /\ LastRepo = RepoR /\ LastTag = TagA
    /\ Before.tags = {TagA, TagB}
    /\ After.tags = {TagB}
    /\ After.index[TagB] # {}
    /\ Before.revs \ After.revs # {}

(* ------------------------------------------------------------------ *)
(* The run as a whole                                                  *)
(* ------------------------------------------------------------------ *)

\* an image whose repository part holds an upper-case letter is no valid name
HasUpper(image) ==
    \E i \in 1..Len(SplitImage(image, Latest).repo) :
        SplitImage(image, Latest).repo[i] \in UpperAlpha

\* main() let the run through to __call__
PassedValidation ==
    /\ \A j \in 1..Len(args.images) : check_name(args.images[j])
    /\ ~(args.remove /\ args.images = <<>>)

GcCalls == SelectSeq(calls, LAMBDA c : c.op = "garbage_collect")

\* the calls of the run apart from stopping and starting the container
Work == SelectSeq(calls, LAMBDA c : c.op \in {"clean_repo", "garbage_collect"})

\* the tree clean_repo leaves after the first n targets, from tree f
RECURSIVE Pruned(_, _)
Pruned(f, n) ==
    IF n = 0 THEN f ELSE clean_repo(Pruned(f, n - 1), images[n], args.remove).fs

\* C6: when any image argument, at whatever position, is an invalid name,
\* the run never gets past main(): nothing is deleted, no target is
\* processed, the container is not stopped, the collector is not invoked,
\* and the process exits with an error naming an image.
C6_InvalidNameAbortsRun ==
    (\E j \in 1..Len(args.images) : HasUpper(args.images[j])) =>
        /\ pc \in {"main", "exit"}
        /\ fs = fs0
        /\ done = 0
        /\ calls = <<>>
        /\ container # "stopped"
        /\ pc = "exit" =>
              /\ code = 1
              /\ Len(errors) = 1
              /\ errors[1].msg = "Invalid Docker repository/tag"
              /\ HasUpper(errors[1].repo)

\* the run was aborted although its first image is a valid name of a
\* repository with something to delete; the invalid name came second
C6_Witness ==
    /\ pc = "exit"
    /\ args.images = <<RepoR, <<"R">>>>
    /\ args.remove /\ args.container
    /\ fs0[RepoR].mf /\ fs0[RepoR].tags # {}
    /\ fs = fs0

\* C7 as stated: a target naming no repository, or a repository without the
\* requested tag, makes clean_repo report an error and return False with
\* nothing deleted, and the run still processes every remaining target.
C7_MissingTargetIsPerTargetError ==
    /\ (Called /\ (~WasRepository \/ (LastTag # <<>> /\ LastTag \notin Before.tags))) =>
          /\ ~LastCall.raised
          /\ ~LastCall.ok
          /\ fs = pre
          /\ errors # <<>>
          /\ errors[Len(errors)].repo = LastRepo
    /\ (pc = "exit" /\ PassedValidation) => done = Len(images)

\* C8 as stated: a tag directory without current/link met while processing
\* a target (named explicitly, or listed in all-tags mode) makes the target
\* fail with an error naming that tag.
C8_MissingLinkIsReported ==
    (Called /\ WasRepository /\ ~args.remove) =>
        \A t \in Before.tags :
            (Before.link[t] = NoFile /\ LastTag \in {<<>>, t}) =>
                /\ ~LastCall.ok
                /\ \E k \in 1..Len(errors) : errors[k] = NoSuchTag(LastRepo, t)

\* C9 as stated: a run that passed validation and has ended called
\* clean_repo once per target, in list order, and then the garbage
\* collector exactly once.
C9_CollectorOnceAfterAllTargets ==
    (pc = "exit" /\ PassedValidation) =>
        /\ Len(GcCalls) = 1
        /\ Len(Work) = Len(images) + 1
        /\ \A k \in 1..Len(images) :
              Work[k].op = "clean_repo" /\ Work[k].image = images[k]
        /\ Work[Len(Work)].op = "garbage_collect"

\* C10: the process exits with status 0 if and only if the run passed
\* validation, clean_repo returned True for every target and the collector
\* succeeded; a failing collector leaves the pruned tree as the targets
\* left it, and the run still goes on to its end with status 1.
C10_ExitStatus ==
    pc = "exit" =>
        /\ code \in {0, 1}
        /\ code = 0 <=>
              /\ PassedValidation
              /\ done = Len(images)
              /\ \A k \in 1..Len(CleanCalls) : CleanCalls[k].ok /\ ~CleanCalls[k].raised
              /\ Len(GcCalls) = 1 /\ GcCalls[1].ok
        /\ (Len(GcCalls) = 1 /\ ~GcCalls[1].ok) =>
              /\ fs = Pruned(fs0, Len(images))
              /\ code = 1

\* every target succeeded and deleted something, the collector failed: the
\* run exits with status 1 and the deletions stand
C10_Witness ==
    /\ pc = "exit"
    /\ Len(images) = 2
    /\ \A k \in 1..Len(CleanCalls) : CleanCalls[k].ok
    /\ Len(GcCalls) = 1 /\ ~GcCalls[1].ok
    /\ fs # fs0
    /\ code = 1

(* ------------------------------------------------------------------ *)
(* Pruning twice                                                       *)
(* ------------------------------------------------------------------ *)

\* the last two targets are the same image and both calls returned
PrunedTwice ==
    /\ done >= 2
    /\ ~args.remove
    /\ images[done] = images[done - 1]
    /\ ~LastCall.raised

\* C11: in non-remove mode, a prune (of all tags, or of one given tag) that
\* immediately follows the same prune deletes nothing: the tree after the
\* second call is the tree after the first.
C11_SecondPruneDeletesNothing ==
    PrunedTwice => fs = pre

\* r:a was pruned twice, the first prune deleted index entries and
\* revisions, the second left the tree as it was
C11_Witness ==
    /\ PrunedTwice
    /\ images[done] = <<"r", ":", "a">>
    /\ LastCall.ok
    /\ fs0[RepoR].index[TagA] # fs[RepoR].index[TagA]
    /\ fs0[RepoR].revs # fs[RepoR].revs
    /\ fs = pre

(* ------------------------------------------------------------------ *)
(* Name validation on its own                                          *)
(* ------------------------------------------------------------------ *)

\* the characters image names are built from
NameChars == {"r", "0", "R", "_", ".", "-", ":", "/", "!", NL}

Names == SeqsUpTo(NameChars, MaxNameLen)

\* a run given one image name on an empty registry, to see what main()
\* makes of the name
InitName ==
    /\ fs = [p \in RepoPaths |-> NoRepo]
    /\ args \in [images : {<<n>> : n \in Names},
                 remove : {FALSE},
                 container : {FALSE}]
    /\ pc = "main"
    /\ images = <<>>
    /\ done = 0
    /\ exit_status = 0
    /\ code = 0
    /\ container = "none"
    /\ errors = <<>>
    /\ calls = <<>>
    /\ pre = fs
    /\ fs0 = fs

SpecName == InitName /\ [][Main]_vars

\* the tag grammar: [A-Za-z0-9_] followed by characters of [A-Za-z0-9_.-]
TagGrammar(tag) ==
    /\ Len(tag) >= 1
    /\ tag[1] \in TagFirst
    /\ \A i \in 1..Len(tag) : tag[i] \in TagRest

\* positions i..j of s are a maximal run of separator characters
SeparatorRun(s, i, j) ==
    /\ i <= j
    /\ \A k \in i..j : s[k] \in {".", "_", "-"}
    /\ i = 1 \/ s[i - 1] \in LowerAlnum
    /\ j = Len(s) \/ s[j + 1] \in LowerAlnum

\* the segment grammar [a-z0-9]+((?:[._]|__|-+)[a-z0-9]+)*: characters of
\* [a-z0-9] with single separators '.', '_', '__' or a run of '-' between them
SegmentGrammar(seg) ==
    /\ Len(seg) >= 1
    /\ \A i \in 1..Len(seg) : seg[i] \in LowerAlnum \cup {".", "_", "-"}
    /\ seg[1] \in LowerAlnum
    /\ seg[Len(seg)] \in LowerAlnum
    /\ \A i, j \in 1..Len(seg) :
          SeparatorRun(seg, i, j) =>
              \/ SubSeq(seg, i, j) \in {<<".">>, <<"_">>, <<"_", "_">>}
              \/ \A k \in i..j : seg[k] = "-"

\* the names the grammar admits
ValidName(name) ==
    LET parts == SplitImage(name, Latest)
        segs == SplitSlash(parts.repo)
    IN /\ Len(name) < ImageLimit
       /\ Len(parts.tag) < TagLimit
       /\ TagGrammar(parts.tag)
       /\ \A j \in 1..Len(segs) : SegmentGrammar(segs[j])

\* C12 as stated: main() lets a name through exactly when the name is
\* admitted by the grammar; one character outside it, wherever it stands,
\* makes check_name reject.
C12_AcceptsExactlyTheGrammar ==
    pc # "main" => (pc = "call" <=> ValidName(args.images[1]))

\* a clean_repo call in which rmtree failed on a path
DeletionFailed(c) == c.op = "clean_repo" /\ "failed" \in DOMAIN c

SomeDeletionFailed == \E i \in 1..Len(calls) : DeletionFailed(calls[i])

\* C13 as stated: when rmtree fails on one path, the run still goes through
\* every remaining target and still calls the garbage collector, and it ends
\* with a non-zero status.
C13_DeletionFailureIsPerTarget ==
    (pc = "exit" /\ SomeDeletionFailed) =>
        /\ done = Len(images)
        /\ Len(GcCalls) = 1
        /\ code # 0

\* the removals a run without the dry-run flag performs for the last target
\* on the tree the dry run saw
WouldHavePerformed ==
    LET real == clean_repo(pre, images[done], args.remove)
    IN IF real.fs = pre THEN {} ELSE removals(pre, real.fs, LastRepo)

\* the messages clean_repo prints for the last target are the last ones
\* the run printed
TargetErrorsReported ==
    LET e == clean_repo(pre, images[done], args.remove).errors
    IN /\ Len(errors) >= Len(e)
       /\ SubSeq(errors, Len(errors) - Len(e) + 1, Len(errors)) = e

\* the run printed the validation and missing-target errors it met
ErrorsReported ==
    /\ (pc = "exit" /\ ~PassedValidation) =>
          /\ Len(errors) = 1
          /\ errors[1].msg \in {"Invalid Docker repository/tag", UsageError.msg}
    /\ Called => TargetErrorsReported

EveryRepositoryTagged(f) == \A p \in DOMAIN f : f[p].mf => f[p].tags # {}

\* C15: in remove mode, when every repository had a tag at the start, no
\* repository is ever left with an empty set of tags: the call that would
\* remove the last tag removes the repository directory.
C15_NoRepositoryWithoutTags ==
    (args.remove /\ EveryRepositoryTagged(fs0)) => EveryRepositoryTagged(fs)

C15_Witness ==
    /\ args.remove
    /\ pc = "exit"
    /\ images = <<<<"r", ":", "a">>, <<"r", ":", "b">>>>
    /\ fs0[RepoR].tags = {TagA, TagB}
    /\ CleanCalls[1].ok /\ CleanCalls[2].ok
    /\ pre[RepoR].tags = {TagB}
    /\ ~fs[RepoR].dir

\* in the tree f every tag's current hash has its entry in the tag's own
\* index and its revision, and every index entry has its revision
LiveManifestsPresent(f) ==
    \A p \in DOMAIN f :
       f[p].mf =>
          \A t \in f[p].tags :
             /\ f[p].link[t] # NoFile =>
                   \E h \in f[p].index[t] :
                      /\ Name(h) = ReadCurrent(f[p].link[t])
                      /\ h \in f[p].revs
             /\ f[p].index[t] \subseteq f[p].revs

\* C16: from a tree in which every current hash is in its tag's index and
\* has its revision, cleaning never deletes a live manifest: every tag that
\* is left keeps its current hash in its own index and in the revisions, and
\* every index entry that is left keeps its revision.
C16_LiveManifestsKept ==
    LiveManifestsPresent(fs0) => LiveManifestsPresent(fs)

C16_Witness ==
    /\ LiveManifestsPresent(fs0)
    /\ Called
    /\ LastCall.ok
    /\ LastRepo = RepoR
    /\ fs[RepoR].revs # pre[RepoR].revs
    /\ \E t \in fs[RepoR].tags : fs[RepoR].link[t] # NoFile
    /\ \E t \in fs[RepoR].tags : fs[RepoR].index[t] # pre[RepoR].index[t]

\* C17 as stated: a clean_repo call for a target in repository R leaves
\* every other repository as it was, the repositories below R included.
C17_OtherRepositoriesUnchanged ==
    (Called /\ ~LastCall.raised) =>
        \A q \in DOMAIN fs : q # LastRepo => fs[q] = pre[q]

\* the positions in calls of the operation op
CallsOf(op) == {i \in 1..Len(calls) : calls[i].op = op}

\* every clean_repo and garbage_collect call was made after the container
\* was stopped and before it was started again
WorkWhileStopped ==
    \A i \in CallsOf("clean_repo") \cup CallsOf("garbage_collect") :
       /\ \E j \in CallsOf("stop_container") : j < i
       /\ \A j \in CallsOf("start_container") : i < j

\* a run that stopped the container has tried to start it when it exits
RestartedAtExit ==
    (pc = "exit" /\ CallsOf("stop_container") # {})
        => CallsOf("start_container") # {}

\* C18 as stated: given a container, the run stops it before the first
\* deletion, deletes and collects while it is stopped, and has tried to start
\* it again when the process exits, also when a target fails, a deletion or a
\* directory listing raises, or the run is interrupted.
C18_StoppedDuringWorkAndRestarted ==
    args.container => (WorkWhileStopped /\ RestartedAtExit)

====
